---- MODULE Spec2Model ----
(***************************************************************************)
(* A model of the JSON parser of src/src/lib.rs.  The parser is a pure     *)
(* function from a character stream to a value or an error; every parsing  *)
(* function of the source is an operator here, taking the characters the   *)
(* iterator has not yet yielded and returning its result together with the *)
(* characters that are left.  The state machine around it draws an input   *)
(* text, parses it, and then reads the parsed value through the accessors. *)
(*                                                                         *)
(* A char is a one-character string; a decoded String is the sequence of   *)
(* the scalar values (code points) of its chars.  An f64 is kept as the    *)
(* exact decimal mant * 10^(exp - scale); rounding and the f64 range are   *)
(* not modelled.                                                           *)
(***************************************************************************)
EXTENDS Integers, Sequences, FiniteSets, TLC

VARIABLES
    input,            \* the text handed to parse_json_string
    pc,               \* "ready" -> "parsed" -> "done"
    result,           \* what parse_json_string returned
    lookup_key,       \* the key handed to Object::get
    got,              \* what the accessor chain object().get(lookup_key) returned
    overflow_checks   \* TRUE: integer overflow panics (debug build); FALSE: it wraps

vars == <<input, pc, result, lookup_key, got, overflow_checks>>

(***************************************************************************)
(* Characters.                                                             *)
(***************************************************************************)

UpperCase ==
    << "A", "B", "C", "D", "E", "F", "G", "H", "I", "J", "K", "L", "M",
       "N", "O", "P", "Q", "R", "S", "T", "U", "V", "W", "X", "Y", "Z" >>
LowerCase ==
    << "a", "b", "c", "d", "e", "f", "g", "h", "i", "j", "k", "l", "m",
       "n", "o", "p", "q", "r", "s", "t", "u", "v", "w", "x", "y", "z" >>
DecDigits == <<"0", "1", "2", "3", "4", "5", "6", "7", "8", "9">>

\* The punctuation of the model's alphabets, each with its scalar value.
Punctuation ==
    << <<"\t", 9>>, <<"\n", 10>>, <<"\r", 13>>, <<" ", 32>>, <<"\"", 34>>,
       <<"+", 43>>, <<",", 44>>, <<"-", 45>>, <<".", 46>>, <<"/", 47>>,
       <<":", 58>>, <<"[", 91>>, <<"\\", 92>>, <<"]", 93>>, <<"{", 123>>,
       <<"}", 125>> >>

IndexIn(seq, ch) == CHOOSE i \in 1..Len(seq) : seq[i] = ch
Occurs(seq, ch) == \E i \in 1..Len(seq) : seq[i] = ch

\* char as u32: the scalar value of a char of the input.
ScalarOf(ch) ==
    CASE Occurs(DecDigits, ch) -> 47 + IndexIn(DecDigits, ch)
      [] Occurs(UpperCase, ch) -> 64 + IndexIn(UpperCase, ch)
      [] Occurs(LowerCase, ch) -> 96 + IndexIn(LowerCase, ch)
      [] OTHER -> (CHOOSE p \in {Punctuation[i] : i \in 1..Len(Punctuation)} : p[1] = ch)[2]

\* The scalar values of a text, as a String holds them.
Scalars(text) == [i \in 1..Len(text) |-> ScalarOf(text[i])]

\* char::is_whitespace, on the characters of the model's alphabets.
IsWhitespace(ch) == ch \in {" ", "\n", "\t", "\r"}

HexUpper == DecDigits \o <<"A", "B", "C", "D", "E", "F">>
HexLower == DecDigits \o <<"a", "b", "c", "d", "e", "f">>

IsDigit(ch) == Occurs(DecDigits, ch)

\* char::to_digit(10) on a decimal digit.
ToDigit10(ch) == (CHOOSE i \in 1..10 : DecDigits[i] = ch) - 1

IsHexDigit(ch) == \E i \in 1..16 : HexUpper[i] = ch \/ HexLower[i] = ch

\* char::to_digit(0x10) on a hexadecimal digit of either case.
ToDigit16(ch) == (CHOOSE i \in 1..16 : HexUpper[i] = ch \/ HexLower[i] = ch) - 1

(***************************************************************************)
(* Values, errors and results.                                             *)
(***************************************************************************)

Null == [type |-> "Null"]
Boolean(b) == [type |-> "Boolean", b |-> b]
\* The f64 mant * 10^(exp - scale): mant carries the sign, scale counts the
\* fraction digits, exp is the signed exponent that powi applied.
Number(mant, scale, exp) == [type |-> "Number", mant |-> mant, scale |-> scale, exp |-> exp]
String(s) == [type |-> "String", s |-> s]
Array(items) == [type |-> "Array", items |-> items]
Object(entries) == [type |-> "Object", entries |-> entries]

UnexpectedChar(ch) == [kind |-> "UnexpectedChar", ch |-> ch]
UnexpectedKeyword == [kind |-> "UnexpectedKeyword"]
UnknownEscapeCharacter(ch) == [kind |-> "UnknownEscapeCharacter", ch |-> ch]
ExtraChars(chars) == [kind |-> "ExtraChars", chars |-> chars]
EarlyEndOfStream == [kind |-> "EarlyEndOfStream"]
InvalidUnicode == [kind |-> "InvalidUnicode"]
LeadingZero == [kind |-> "LeadingZero"]

\* Ok((value, excess)) of a production that can read one character too many;
\* excess is <<>> for None and <<ch>> for Some(ch); rest is what the iterator
\* still holds when the function returns.
OkExcess(val, excess, rest) == [st |-> "Ok", val |-> val, excess |-> excess, rest |-> rest]
\* Ok(value) of a production that returns no excess.
Ok(val, rest) == [st |-> "Ok", val |-> val, rest |-> rest]
Err(err, rest) == [st |-> "Err", err |-> err, rest |-> rest]
\* The thread panicked: no Result is returned at all.
Panicked == [st |-> "Panic"]

None == [some |-> FALSE]
Some(v) == [some |-> TRUE, v |-> v]

(***************************************************************************)
(* Iterator adapters.                                                      *)
(***************************************************************************)

RECURSIVE SkipWhile(_)
\* What skip_while(is_whitespace) leaves of the characters s.
SkipWhile(s) ==
    IF s = <<>> THEN s
    ELSE IF IsWhitespace(Head(s)) THEN SkipWhile(Tail(s))
    ELSE s

\* The first next() of iter.skip_while(is_whitespace): the first significant
\* character, if any, and what is left after it.
NextSkipping(s) ==
    LET t == SkipWhile(s)
    IN  IF t = <<>> THEN [ch |-> None, rest |-> t]
        ELSE [ch |-> Some(Head(t)), rest |-> Tail(t)]

RECURSIVE TakeEq(_, _)
\* iter.take(Len(lit)).eq(lit): eq pulls one character of each side at a time
\* and stops at the first difference or when either side ends.
TakeEq(s, lit) ==
    IF lit = <<>> THEN [eq |-> TRUE, rest |-> s]
    ELSE IF s = <<>> THEN [eq |-> FALSE, rest |-> s]
    ELSE IF Head(s) # Head(lit) THEN [eq |-> FALSE, rest |-> Tail(s)]
    ELSE TakeEq(Tail(s), Tail(lit))

(***************************************************************************)
(* i32 arithmetic of the exponent.                                         *)
(***************************************************************************)

I32Max == 2147483647
I32Min == -I32Max - 1

\* The mathematical a + b leaves the i32 range.
AddOverflows(a, b) ==
    \/ b > 0 /\ a > I32Max - b
    \/ b < 0 /\ a < I32Min - b

\* a.wrapping_add(b): a + b modulo 2^32, computed inside the i32 range.
WrappingAdd(a, b) ==
    IF b > 0 /\ a > I32Max - b THEN ((a - I32Max) + (b - I32Max)) - 2
    ELSE IF b < 0 /\ a < I32Min - b THEN (a - I32Min) + (b - I32Min)
    ELSE a + b

\* a.wrapping_mul(10).
WrappingMul10(a) ==
    LET a2 == WrappingAdd(a, a)
        a4 == WrappingAdd(a2, a2)
        a8 == WrappingAdd(a4, a4)
    IN  WrappingAdd(a8, a2)

Mul10Overflows(a) == a > I32Max \div 10 \/ a < -(I32Max \div 10)

\* exponent *= 10; exponent += digit, on i32: None when an overflow panics,
\* the wrapped value when it does not.
ExponentStep(exponent, digit) ==
    LET product == WrappingMul10(exponent)
    IN  IF overflow_checks /\ (Mul10Overflows(exponent) \/ AddOverflows(product, digit))
        THEN None
        ELSE Some(WrappingAdd(product, digit))

\* exponent * sign, on i32 with sign in {1, -1}.
ExponentSigned(exponent, sign) ==
    IF sign = 1 THEN Some(exponent)
    ELSE IF exponent = I32Min THEN (IF overflow_checks THEN None ELSE Some(I32Min))
    ELSE Some(-exponent)

(***************************************************************************)
(* Number literals.                                                        *)
(***************************************************************************)

RECURSIVE Pow10(_)
Pow10(n) == IF n = 0 THEN 1 ELSE 10 * Pow10(n - 1)

RECURSIVE ExponentLoop(_, _, _, _, _)
\* The digit loop of parse_e_notation_impl; s is maybe_digit chained with the
\* iterator.
ExponentLoop(s, mant, scale, sign, exponent) ==
    IF s # <<>> /\ IsDigit(Head(s))
    THEN LET next == ExponentStep(exponent, ToDigit10(Head(s)))
         IN  IF next.some
             THEN ExponentLoop(Tail(s), mant, scale, sign, next.v)
             ELSE Panicked
    ELSE LET signed == ExponentSigned(exponent, sign)
             option == IF s = <<>> THEN <<>> ELSE <<Head(s)>>
             rest == IF s = <<>> THEN s ELSE Tail(s)
         IN  IF signed.some
             THEN OkExcess(Number(mant, scale, signed.v), option, rest)
             ELSE Panicked

\* parse_e_notation_impl(json_iter, number), number = mant / 10^scale.
ParseENotationImpl(s, mant, scale) ==
    IF s = <<>> THEN Err(EarlyEndOfStream, s)
    ELSE CASE Head(s) = "-" -> ExponentLoop(Tail(s), mant, scale, -1, 0)
           [] Head(s) = "+" -> ExponentLoop(Tail(s), mant, scale, 1, 0)
           [] IsDigit(Head(s)) -> ExponentLoop(s, mant, scale, 1, 0)
           [] OTHER -> Err(UnexpectedChar(Head(s)), Tail(s))

RECURSIVE FractionLoop(_, _, _, _, _)
\* The loop of parse_fraction_part_impl: number is the fraction read so far
\* times 10^n, n the count of fraction digits read.
FractionLoop(s, integer_part, sign, number, n) ==
    IF s # <<>> /\ IsDigit(Head(s))
    THEN FractionLoop(Tail(s), integer_part, sign, number * 10 + ToDigit10(Head(s)), n + 1)
    ELSE IF s # <<>> /\ Head(s) \in {"e", "E"}
    THEN ParseENotationImpl(Tail(s), (integer_part * Pow10(n) + number) * sign, n)
    ELSE OkExcess(Number((integer_part * Pow10(n) + number) * sign, n, 0),
                  IF s = <<>> THEN <<>> ELSE <<Head(s)>>,
                  IF s = <<>> THEN s ELSE Tail(s))

\* parse_fraction_part_impl(iter, integer_part, sign).
ParseFractionPartImpl(s, integer_part, sign) == FractionLoop(s, integer_part, sign, 0, 0)

RECURSIVE IntegerLoop(_, _, _)
\* The loop of parse_number_impl over the digits after the first.
IntegerLoop(s, number, sign) ==
    IF s # <<>> /\ IsDigit(Head(s))
    THEN IntegerLoop(Tail(s), number * 10 + ToDigit10(Head(s)), sign)
    ELSE IF s # <<>> /\ Head(s) = "."
    THEN ParseFractionPartImpl(Tail(s), number, sign)
    ELSE IF s # <<>> /\ Head(s) \in {"e", "E"}
    THEN ParseENotationImpl(Tail(s), number * sign, 0)
    ELSE OkExcess(Number(number * sign, 0, 0),
                  IF s = <<>> THEN <<>> ELSE <<Head(s)>>,
                  IF s = <<>> THEN s ELSE Tail(s))

\* The arm of parse_number_impl for a first digit '0'; s is what follows it.
AfterLeadingZero(s, sign) ==
    IF s = <<>> THEN Err(EarlyEndOfStream, s)
    ELSE CASE Head(s) = "." -> ParseFractionPartImpl(Tail(s), 0, sign)
           [] Head(s) \in {"e", "E"} -> ParseENotationImpl(Tail(s), 0, 0)
           [] OTHER -> OkExcess(Number(0, 0, 0), <<Head(s)>>, Tail(s))

\* The match on first_char of parse_number_impl; s is what follows it.
NumberFrom(s, first_char, sign) ==
    IF IsDigit(first_char) /\ first_char # "0"
    THEN IntegerLoop(s, ToDigit10(first_char), sign)
    ELSE IF first_char = "0" THEN AfterLeadingZero(s, sign)
    ELSE Err(UnexpectedChar(first_char), s)

\* parse_number_impl(iter, starting_character).
ParseNumberImpl(s, starting_character) ==
    IF starting_character = "-"
    THEN IF s = <<>> THEN Err(EarlyEndOfStream, s)
         ELSE NumberFrom(Tail(s), Head(s), -1)
    ELSE NumberFrom(s, starting_character, 1)

(***************************************************************************)
(* String literals.                                                        *)
(***************************************************************************)

SurrogateFirst == 55296    \* 0xD800
SurrogateLast == 57343     \* 0xDFFF

RECURSIVE DecodeUtf16(_)
\* The items char::decode_utf16 yields for the code units: a scalar value for
\* a unit outside the surrogate range and for a high surrogate followed by a
\* low one (0xDC00..0xDFFF), an error for every other surrogate, after which
\* decoding goes on with the unit that follows it.
DecodeUtf16(units) ==
    IF units = <<>> THEN <<>>
    ELSE LET u == Head(units)
         IN  IF u < SurrogateFirst \/ u > SurrogateLast
             THEN <<[ok |-> TRUE, c |-> u]>> \o DecodeUtf16(Tail(units))
             ELSE IF u >= 56320 \/ Len(units) = 1
             THEN <<[ok |-> FALSE]>> \o DecodeUtf16(Tail(units))
             ELSE IF units[2] < 56320 \/ units[2] > SurrogateLast
             THEN <<[ok |-> FALSE]>> \o DecodeUtf16(Tail(units))
             ELSE <<[ok |-> TRUE, c |-> ((u % 1024) * 1024 + (units[2] % 1024)) + 65536]>>
                  \o DecodeUtf16(Tail(Tail(units)))

RECURSIVE HexLoop(_, _, _)
\* for ch in json_iter.take(n): sum = sum * 0x10 + digit.  The loop ends
\* without an error when the iterator ends early; four digits fit a u16.
HexLoop(s, sum, n) ==
    IF n = 0 \/ s = <<>> THEN Ok(sum, s)
    ELSE IF ~IsHexDigit(Head(s)) THEN Err(InvalidUnicode, Tail(s))
    ELSE HexLoop(Tail(s), sum * 16 + ToDigit16(Head(s)), n - 1)

\* What parse_escaped_unicode makes of the items decoded from the pair.
PairResult(utf16, rest) ==
    IF Len(utf16) = 1
    THEN IF utf16[1].ok THEN Ok(utf16[1].c, rest) ELSE Err(InvalidUnicode, rest)
    ELSE Panicked    \* unreachable!()

\* parse_escaped_unicode(json_iter); "\u" is already eaten.
ParseEscapedUnicode(s) ==
    LET first == HexLoop(s, 0, 4)
    IN  IF first.st # "Ok" THEN first
        ELSE IF first.val >= SurrogateFirst /\ first.val <= SurrogateLast
        THEN LET marker == TakeEq(first.rest, <<"\\", "u">>)
                 second == HexLoop(marker.rest, 0, 4)
             IN  IF ~marker.eq THEN Err(InvalidUnicode, marker.rest)
                 ELSE IF second.st # "Ok" THEN second
                 ELSE PairResult(DecodeUtf16(<<first.val, second.val>>), second.rest)
        ELSE Ok(first.val, first.rest)

\* parse_escape_character_impl(json_iter); '\' is already eaten.
ParseEscapeCharacterImpl(s) ==
    IF s = <<>> THEN Err(EarlyEndOfStream, s)
    ELSE LET ch == Head(s)
         IN  CASE ch \in {"\"", "\\", "/"} -> Ok(ScalarOf(ch), Tail(s))
               [] ch = "n" -> Ok(10, Tail(s))
               [] ch = "r" -> Ok(13, Tail(s))
               [] ch = "t" -> Ok(9, Tail(s))
               [] ch = "f" -> Ok(12, Tail(s))
               [] ch = "b" -> Ok(8, Tail(s))
               [] ch = "u" -> ParseEscapedUnicode(Tail(s))
               [] OTHER -> Err(UnknownEscapeCharacter(ch), Tail(s))

RECURSIVE StringLoop(_, _)
\* The loop of parse_string_impl; result holds the scalar values pushed so far.
StringLoop(s, result_) ==
    IF s = <<>> THEN Err(EarlyEndOfStream, s)
    ELSE CASE Head(s) = "\"" -> Ok(result_, Tail(s))
           [] Head(s) = "\\" ->
                LET escaped == ParseEscapeCharacterImpl(Tail(s))
                IN  IF escaped.st = "Ok"
                    THEN StringLoop(escaped.rest, Append(result_, escaped.val))
                    ELSE escaped
           [] OTHER -> StringLoop(Tail(s), Append(result_, ScalarOf(Head(s))))

\* parse_string_impl(json_iter); the opening '"' is already eaten.
ParseStringImpl(s) == StringLoop(s, <<>>)

(***************************************************************************)
(* Keywords.                                                               *)
(***************************************************************************)

\* A faulty Keyword: the input ending inside the keyword is reported as
\* EarlyEndOfStream.
KeywordEarlyEnd(s, tail, val) ==
    LET m == TakeEq(s, tail)
    IN  IF m.eq THEN Ok(val, m.rest)
        ELSE IF Len(s) < Len(tail) /\ m.rest = <<>> THEN Err(EarlyEndOfStream, m.rest)
        ELSE Err(UnexpectedKeyword, m.rest)

\* json_iter.take(n).eq(keyword tail) decides between the value and the error.
Keyword(s, tail, val) ==
    LET m == TakeEq(s, tail)
    IN  IF m.eq THEN Ok(val, m.rest) ELSE Err(UnexpectedKeyword, m.rest)

ParseNullImpl(s) == Keyword(s, <<"u", "l", "l">>, Null)
ParseTrueImpl(s) == Keyword(s, <<"r", "u", "e">>, Boolean(TRUE))
ParseFalseImpl(s) == Keyword(s, <<"a", "l", "s", "e">>, Boolean(FALSE))

(***************************************************************************)
(* The grammar walker.                                                     *)
(***************************************************************************)

RECURSIVE ParseJsonImpl(_)
RECURSIVE ArrayLoop(_, _, _)
RECURSIVE ObjectLoop(_, _, _)

\* result.map(JsonObject::Array), .map(JsonObject::String) and
\* .map(JsonObject::Object).
MapArray(r) == IF r.st = "Ok" THEN Ok(Array(r.val), r.rest) ELSE r
MapString(r) == IF r.st = "Ok" THEN Ok(String(r.val), r.rest) ELSE r
MapObject(r) == IF r.st = "Ok" THEN Ok(Object(r.val), r.rest) ELSE r

\* result.map(|obj| (obj, None)).
NoExcess(r) == IF r.st = "Ok" THEN OkExcess(r.val, <<>>, r.rest) ELSE r

\* A faulty Chain: the caller forgets the excess character.
ChainWithoutExcess(r) == r.rest

\* excess.into_iter().chain(json_iter): the characters a caller reads after a
\* value it parsed.
Chain(r) == r.excess \o r.rest

\* The first iteration of parse_array_impl takes this error of its element for
\* the end of an empty array.
IsEmptyArrayMark(r) == r.st = "Err" /\ r.err = UnexpectedChar("]")

\* The match of parse_array_impl on the character after an element.
AfterElement(r, vec) ==
    LET n == NextSkipping(Chain(r))
    IN  IF ~n.ch.some THEN Err(EarlyEndOfStream, n.rest)
        ELSE CASE n.ch.v = "," -> ArrayLoop(n.rest, FALSE, vec)
               [] n.ch.v = "]" -> Ok(vec, n.rest)
               [] OTHER -> Err(UnexpectedChar(n.ch.v), n.rest)

\* The loop of parse_array_impl.
ArrayLoop(s, could_be_empty, vec) ==
    LET r == ParseJsonImpl(s)
    IN  IF r.st = "Ok" THEN AfterElement(r, Append(vec, r.val))
        ELSE IF could_be_empty /\ IsEmptyArrayMark(r) THEN Ok(vec, r.rest)
        ELSE r

\* parse_array_impl(json_iter); '[' is already eaten.
ParseArrayImpl(s) == ArrayLoop(s, TRUE, <<>>)

\* A faulty NotAKey: '}' closes the object at every key position.
NotAKeyClosesAnywhere(ch, could_be_empty, object, rest) ==
    IF ch = "}" THEN Ok(object, rest)
    ELSE Err(UnexpectedChar(ch), rest)

\* The match of parse_object_impl on the character at a key position that is
\* not '"'.
NotAKey(ch, could_be_empty, object, rest) ==
    IF could_be_empty /\ ch = "}" THEN Ok(object, rest)
    ELSE Err(UnexpectedChar(ch), rest)

\* The match of parse_object_impl on the character after a value.
AfterValue(r, object) ==
    LET n == NextSkipping(Chain(r))
    IN  IF ~n.ch.some THEN Err(EarlyEndOfStream, n.rest)
        ELSE CASE n.ch.v = "," -> ObjectLoop(n.rest, FALSE, object)
               [] n.ch.v = "}" -> Ok(object, n.rest)
               [] OTHER -> Err(UnexpectedChar(n.ch.v), n.rest)

\* A faulty Push: a pair whose key is already present replaces the old pair.
PushUnique(object, key, value) ==
    IF \E i \in 1..Len(object) : object[i][1] = key
    THEN [i \in 1..Len(object) |->
            IF object[i][1] = key THEN <<key, value>> ELSE object[i]]
    ELSE Append(object, <<key, value>>)

\* object.push((key, value)).
Push(object, key, value) == Append(object, <<key, value>>)

\* parse_object_impl from the key on; s follows the opening '"' of the key.
Entry(s, object) ==
    LET key == ParseStringImpl(s)
        colon == NextSkipping(key.rest)
        value == ParseJsonImpl(colon.rest)
    IN  IF key.st # "Ok" THEN key
        ELSE IF ~colon.ch.some THEN Err(EarlyEndOfStream, colon.rest)
        ELSE IF colon.ch.v # ":" THEN Err(UnexpectedChar(colon.ch.v), colon.rest)
        ELSE IF value.st # "Ok" THEN value
        ELSE AfterValue(value, Push(object, key.val, value.val))

\* The loop of parse_object_impl.
ObjectLoop(s, could_be_empty, object) ==
    LET n == NextSkipping(s)
    IN  IF ~n.ch.some THEN Err(EarlyEndOfStream, n.rest)
        ELSE IF n.ch.v = "\"" THEN Entry(n.rest, object)
        ELSE NotAKey(n.ch.v, could_be_empty, object, n.rest)

\* parse_object_impl(json_iter); '{' is already eaten.
ParseObjectImpl(s) == ObjectLoop(s, TRUE, <<>>)

\* parse_json_impl(json_iter).
ParseJsonImpl(s) ==
    LET n == NextSkipping(s)
    IN  IF ~n.ch.some THEN Err(EarlyEndOfStream, n.rest)
        ELSE CASE n.ch.v = "n" -> NoExcess(ParseNullImpl(n.rest))
               [] n.ch.v = "t" -> NoExcess(ParseTrueImpl(n.rest))
               [] n.ch.v = "f" -> NoExcess(ParseFalseImpl(n.rest))
               [] n.ch.v = "[" -> NoExcess(MapArray(ParseArrayImpl(n.rest)))
               [] n.ch.v = "\"" -> NoExcess(MapString(ParseStringImpl(n.rest)))
               [] n.ch.v = "{" -> NoExcess(MapObject(ParseObjectImpl(n.rest)))
               [] OTHER -> ParseNumberImpl(n.rest, n.ch.v)

(***************************************************************************)
(* The top-level driver and the accessors.                                 *)
(***************************************************************************)

\* A faulty ShouldBeEmpty: the error holds only the first extra character.
ShouldBeEmptyFirstOnly(value, left) ==
    LET should_be_empty == SkipWhile(left)
    IN  IF should_be_empty # <<>>
        THEN [st |-> "Err", err |-> ExtraChars(<<Head(should_be_empty)>>)]
        ELSE [st |-> "Ok", val |-> value]

\* What parse_json_from_iter makes of the characters left after the value.
ShouldBeEmpty(value, left) ==
    LET should_be_empty == SkipWhile(left)
    IN  IF should_be_empty # <<>>
        THEN [st |-> "Err", err |-> ExtraChars(should_be_empty)]
        ELSE [st |-> "Ok", val |-> value]

\* parse_json_from_iter(json_iter).
ParseJsonFromIter(s) ==
    LET r == ParseJsonImpl(s)
    IN  CASE r.st = "Ok" -> ShouldBeEmpty(r.val, Chain(r))
          [] r.st = "Err" -> [st |-> "Err", err |-> r.err]
          [] OTHER -> Panicked

\* parse_json_string(json_str).
ParseJsonString(json_str) == ParseJsonFromIter(json_str)

RECURSIVE FindLast(_, _)
\* A faulty Find: the last pair with the key wins.
FindLast(entries, index) ==
    IF entries = <<>> THEN None
    ELSE LET later == FindLast(Tail(entries), index)
         IN  IF later.some THEN later
             ELSE IF Head(entries)[1] = index THEN Some(Head(entries))
             ELSE None

RECURSIVE Find(_, _)
\* entries.iter().find(|(key, _)| key == index).
Find(entries, index) ==
    IF entries = <<>> THEN None
    ELSE IF Head(entries)[1] = index THEN Some(Head(entries))
    ELSE Find(Tail(entries), index)

\* Object::get(index).
ObjectGet(entries, index) ==
    LET found == Find(entries, index)
    IN  IF found.some THEN Some(found.v[2]) ELSE None

\* JsonObject::object(): the getter of the Object variant.
AsObject(value) == IF value.type = "Object" THEN Some(value.entries) ELSE None

(***************************************************************************)
(* The state machine: draw a text, parse it, read the value.               *)
(***************************************************************************)

\* parse_json_string(input).
Parse ==
    /\ pc = "ready"
    /\ result' = ParseJsonString(input)
    /\ pc' = "parsed"
    /\ UNCHANGED <<input, lookup_key, got, overflow_checks>>

\* json.object().and_then(|object| object.get(key)) on the parsed value.
Lookup(key) ==
    /\ pc = "parsed"
    /\ result.st = "Ok"
    /\ lookup_key' = key
    /\ got' = LET object == AsObject(result.val)
              IN  IF object.some THEN ObjectGet(object.v, key) ELSE None
    /\ pc' = "done"
    /\ UNCHANGED <<input, result, overflow_checks>>

(***************************************************************************)
(* Input texts.  Each family is a bounded set of texts around one          *)
(* production; a specification starts from one family.                     *)
(***************************************************************************)

\* All sequences over A of length at most n.
Seqs(A, n) == UNION {[1..k -> A] : k \in 0..n}

RECURSIVE Flatten(_)
\* The concatenation of a sequence of texts.
Flatten(texts) == IF texts = <<>> THEN <<>> ELSE Head(texts) \o Flatten(Tail(texts))

\* The keys Object::get is called with.
Keys == {Scalars(<<"a">>), Scalars(<<"b">>)}

\* Arrays: '[' and what follows it.
MaxArrTail == 4
ArrChars == {"[", "]", "{", "-", "1", "e", ",", " "}
ArrTexts == {<<"[">> \o t : t \in Seqs(ArrChars, MaxArrTail)}

\* Number literals, bare and inside an array.
MaxNumLen == 4
NumChars == {"0", "1", "-", "+", ".", "e", " ", "[", "]"}
NumTexts == Seqs(NumChars, MaxNumLen)

\* String literals made of \u escapes and plain characters.
MaxStrTokens == 3
StrTokens ==
    { <<"\\", "u", "D", "8", "3", "D">>, <<"\\", "u", "D", "E", "1", "0">>,
      <<"\\", "u", "D", "8", "0", "0">>, <<"\\", "u", "d", "c", "0", "0">>,
      <<"\\", "u", "0", "0", "4", "1">>, <<"\\", "u">>, <<"a">>, <<"\"">> }
StrTexts == {<<"\"">> \o Flatten(ts) : ts \in Seqs(StrTokens, MaxStrTokens)}

\* One complete value followed by whitespace and other characters.  Each
\* value is given with what it parses to.
MaxTopTail == 4
TopValues ==
    { << <<"1", "2", "3">>, Number(123, 0, 0) >>,
      << <<"0">>, Number(0, 0, 0) >>,
      << <<"n", "u", "l", "l">>, Null >>,
      << <<"t", "r", "u", "e">>, Boolean(TRUE) >>,
      << <<"\"", "a", "\"">>, String(Scalars(<<"a">>)) >>,
      << <<"[", "1", "]">>, Array(<<Number(1, 0, 0)>>) >>,
      << <<"{", "}">>, Object(<<>>) >> }
TopTailChars == {" ", "a", "b", "c"}
TopTexts == {v[1] \o t : v \in TopValues, t \in Seqs(TopTailChars, MaxTopTail)}

\* Object literals: '{', members "key":value separated by ',', and a tail
\* that closes the object or breaks it.
MaxMembers == 2
MaxObjTail == 3
ObjKeys == {<<"a">>, <<"b">>}
ObjValues == { << <<"1">>, Number(1, 0, 0) >>, << <<"2">>, Number(2, 0, 0) >> }
ObjMembers == {<<k, v>> : k \in ObjKeys, v \in ObjValues}
ObjTailChars == {",", "}", " ", "x"}

\* The text of one member.
MemberText(m) == <<"\"">> \o m[1] \o <<"\"", ":">> \o m[2][1]

RECURSIVE MembersText(_)
\* The text of the members, separated by ','.
MembersText(ms) ==
    IF ms = <<>> THEN <<>>
    ELSE IF Len(ms) = 1 THEN MemberText(ms[1])
    ELSE MemberText(ms[1]) \o <<",">> \o MembersText(Tail(ms))

ObjTexts ==
    { <<"{">> \o MembersText(ms) \o t :
        ms \in Seqs(ObjMembers, MaxMembers), t \in Seqs(ObjTailChars, MaxObjTail) }

\* Keywords: a lead character and what follows it.
MaxKwTail == 4
KwLeads == {"n", "t", "f"}
KwChars == {"u", "l", "r", "e", "a", "s", " "}
KwTexts == {<<lead>> \o t : lead \in KwLeads, t \in Seqs(KwChars, MaxKwTail)}

\* Nested arrays and objects of numbers, written without whitespace.
MaxHandTokens == 5
HandTokens == { <<"[">>, <<"]">>, <<"{">>, <<"}">>, <<",">>, <<"1">>, <<"0">>,
                <<"\"", "a", "\"", ":">> }
HandTexts == {Flatten(ts) : ts \in Seqs(HandTokens, MaxHandTokens)}

\* Numbers with an exponent: 1e, an optional sign, and at least one digit.
MaxExpDigits == 10
ExpSigns == {<<>>, <<"+">>, <<"-">>}
ExpDigitChars == {"0", "9"}
ExpDigitTexts == UNION {[1..k -> ExpDigitChars] : k \in 1..MaxExpDigits}
ExpTexts == {<<"1", "e">> \o sign \o ds : sign \in ExpSigns, ds \in ExpDigitTexts}

\* The state before parse_json_string is called on one of the texts.
InitWith(texts) ==
    /\ input \in texts
    /\ pc = "ready"
    /\ result = None
    /\ lookup_key = None
    /\ got = None
    /\ overflow_checks \in BOOLEAN

Init == InitWith(ArrTexts \cup NumTexts \cup StrTexts \cup TopTexts \cup ObjTexts
                 \cup KwTexts \cup HandTexts \cup ExpTexts)

Next == Parse \/ \E key \in Keys : Lookup(key)

Spec == Init /\ [][Next]_vars

SpecArr == InitWith(ArrTexts) /\ [][Next]_vars
SpecNum == InitWith(NumTexts) /\ [][Next]_vars
SpecStr == InitWith(StrTexts) /\ [][Next]_vars
SpecTop == InitWith(TopTexts) /\ [][Next]_vars
SpecObj == InitWith(ObjTexts) /\ [][Next]_vars
SpecKw == InitWith(KwTexts) /\ [][Next]_vars
SpecHand == InitWith(HandTexts) /\ [][Next]_vars
SpecExp == InitWith(ExpTexts) /\ [][Next]_vars

(***************************************************************************)
(* Claims.                                                                 *)
(***************************************************************************)

Parsed == pc # "ready"

\* The text handed to parse is exactly what follows.
IsErr(err) == result = [st |-> "Err", err |-> err]
IsOk(val) == result = [st |-> "Ok", val |-> val]

\* s starts with the character ch.
StartsWith(s, ch) == s # <<>> /\ Head(s) = ch

\* C1: parse returns an empty Array only when the first significant
\* character after '[' is ']'; when it is another character and the first
\* element fails to parse, parse returns an error and never an Array.
C1_EmptyArrayOnlyWhenClosed ==
    (Parsed /\ StartsWith(input, "[")) =>
        LET closed == StartsWith(SkipWhile(Tail(input)), "]")
            element == ParseJsonImpl(Tail(input))
        IN  /\ IsOk(Array(<<>>)) => closed
            /\ (~closed /\ element.st = "Err") => result.st = "Err"

\* The text without its leading whitespace and, if it then starts with
\* '[', without the '[' and the whitespace after it: where a number literal
\* starts when the text is a number or an array whose first element is one.
NumberStart(text) ==
    LET t == SkipWhile(text)
    IN  IF StartsWith(t, "[") THEN SkipWhile(Tail(t)) ELSE t

InArray(text) == StartsWith(SkipWhile(text), "[")

Unsigned(t) == IF StartsWith(t, "-") THEN Tail(t) ELSE t

\* t is the digit 0, optionally after '-', followed only by whitespace and
\* then by exactly the characters of closer.
ZeroThen(t, closer) ==
    /\ StartsWith(Unsigned(t), "0")
    /\ SkipWhile(Tail(Unsigned(t))) = closer

\* C2: the literal 0 (or -0) parses to Number(0) whatever follows it: the
\* end of the input or whitespace for a bare number, a closing ']' inside an
\* array.
C2_BareZeroIsNumber ==
    Parsed =>
        /\ (~InArray(input) /\ ZeroThen(NumberStart(input), <<>>))
              => IsOk(Number(0, 0, 0))
        /\ (InArray(input) /\ ZeroThen(NumberStart(input), <<"]">>))
              => IsOk(Array(<<Number(0, 0, 0)>>))

\* t is a number literal whose integer part starts with 0 and goes on with
\* another digit.
ZeroThenDigit(t) ==
    /\ Len(Unsigned(t)) >= 2
    /\ Unsigned(t)[1] = "0"
    /\ IsDigit(Unsigned(t)[2])

\* C3: a number literal whose integer part is a 0 directly followed by a
\* digit makes parse return the error LeadingZero.
C3_LeadingZeroRejected ==
    (Parsed /\ ZeroThenDigit(NumberStart(input))) => IsErr(LeadingZero)

\* u[1..n] is an integer part with an optional fraction: digits without a
\* leading zero, then optionally '.' and at least one digit.
IsMantissa(u, n) ==
    /\ n >= 1
    /\ IsDigit(u[1])
    /\ \A j \in 1..n : IsDigit(u[j]) \/ u[j] = "."
    /\ Cardinality({j \in 1..n : u[j] = "."}) <= 1
    /\ u[n] # "."
    /\ (u[1] = "0") => (n = 1 \/ u[2] = ".")

\* t is a number literal with an exponent marker and a sign that no digit
\* follows.
SignOnlyExponent(t) ==
    LET u == Unsigned(t)
    IN  \E i \in 2..Len(u) :
            /\ IsMantissa(u, i - 1)
            /\ u[i] \in {"e", "E"}
            /\ i + 1 <= Len(u)
            /\ u[i + 1] \in {"+", "-"}
            /\ (i + 2 <= Len(u)) => ~IsDigit(u[i + 2])

\* C9: a number literal whose exponent has a sign but no digit is rejected
\* with an error; parse yields no value for it.
C9_ExponentNeedsDigit ==
    (Parsed /\ SignOnlyExponent(NumberStart(input))) => result.st = "Err"

RECURSIVE HexValue(_)
\* The number the hexadecimal digits write.
HexValue(digits) ==
    IF digits = <<>> THEN 0
    ELSE 16 * HexValue(SubSeq(digits, 1, Len(digits) - 1)) + ToDigit16(digits[Len(digits)])

\* text[from..] starts with a \uXXXX escape of four hexadecimal digits.
EscapeAt(text, from) ==
    /\ Len(text) >= from + 5
    /\ text[from] = "\\"
    /\ text[from + 1] = "u"
    /\ \A i \in (from + 2)..(from + 5) : IsHexDigit(text[i])

\* The code unit of the escape at text[from..].
UnitAt(text, from) == HexValue(SubSeq(text, from + 2, from + 5))

\* The string literal text starts with a \uXXXX escape in the surrogate
\* range.
SurrogateFirstEscape(text) ==
    /\ StartsWith(text, "\"")
    /\ EscapeAt(text, 2)
    /\ UnitAt(text, 2) >= SurrogateFirst
    /\ UnitAt(text, 2) <= SurrogateLast

\* A second escape follows the first and the two are a high surrogate and
\* then a low surrogate.
ValidPairFollows(text) ==
    /\ EscapeAt(text, 8)
    /\ UnitAt(text, 2) < 56320
    /\ UnitAt(text, 8) >= 56320
    /\ UnitAt(text, 8) <= SurrogateLast

\* C4: a string whose first \uXXXX escape is in the surrogate range makes
\* parse return the error InvalidUnicode (a value, not an abort) unless a
\* second escape follows and the two form a high-low pair.
C4_LoneSurrogateIsInvalidUnicode ==
    (Parsed /\ SurrogateFirstEscape(input) /\ ~ValidPairFollows(input))
        => IsErr(InvalidUnicode)

\* text is the sequence prefix followed by something.
IsPrefix(prefix, text) ==
    Len(prefix) <= Len(text) /\ SubSeq(text, 1, Len(prefix)) = prefix

\* What follows the first Len(prefix) characters of text.
After(prefix, text) == SubSeq(text, Len(prefix) + 1, Len(text))

\* C5: for a text that is one complete value followed by other characters,
\* parse returns the value only if all of them are whitespace; otherwise it
\* returns ExtraChars holding the text from the first character after the
\* value that is not whitespace to the end, in order.
C5_TrailingCharsAreExtraChars ==
    Parsed =>
        \A v \in TopValues :
            IsPrefix(v[1], input) =>
                LET extra == SkipWhile(After(v[1], input))
                IN  /\ result.st = "Ok" => (extra = <<>> /\ result.val = v[2])
                    /\ extra # <<>> => IsErr(ExtraChars(extra))

\* "123 abc" has been parsed and gave ExtraChars(['a', 'b', 'c']).
C5_Witness ==
    /\ Parsed
    /\ input = <<"1", "2", "3", " ", "a", "b", "c">>
    /\ IsErr(ExtraChars(<<"a", "b", "c">>))

\* The member lists of the object texts, and the text of an object up to
\* its last member.
ObjShapes == Seqs(ObjMembers, MaxMembers)
ObjOpen(ms) == <<"{">> \o MembersText(ms)

\* The tail of the text input when its members are ms: what follows the
\* last member.  The text has the members ms when that tail is made of the
\* characters of ObjTailChars, none of which starts a further member.
ObjTail(ms) == After(ObjOpen(ms), input)
HasMembers(ms) ==
    /\ IsPrefix(ObjOpen(ms), input)
    /\ \A i \in 1..Len(ObjTail(ms)) : ObjTail(ms)[i] \in ObjTailChars

\* The pairs that stand for the members ms, in their order.
EntriesOf(ms) == [i \in 1..Len(ms) |-> <<Scalars(ms[i][1]), ms[i][2][2]>>]

\* t is whitespace, '}' and whitespace.
JustCloses(t) ==
    StartsWith(SkipWhile(t), "}") /\ SkipWhile(Tail(SkipWhile(t))) = <<>>

\* C6: an object literal that parses holds one (key, value) pair per member
\* of the text, in text order and with duplicate keys kept; get(key) returns
\* the value of the first pair with that key, and None when there is none.
C6_EntriesKeepOrderAndDuplicates ==
    /\ Parsed =>
          \A ms \in ObjShapes :
              (HasMembers(ms) /\ JustCloses(ObjTail(ms)))
                  => IsOk(Object(EntriesOf(ms)))
    /\ (pc = "done" /\ result.val.type = "Object") =>
          LET entries == result.val.entries
              holders == {i \in 1..Len(entries) : entries[i][1] = lookup_key}
          IN  IF holders = {} THEN got = None
              ELSE \E i \in holders :
                      /\ \A j \in holders : i <= j
                      /\ got = Some(entries[i][2])

\* {"a":1,"a":2} has been parsed into two pairs and get("a") returned 1.
C6_Witness ==
    /\ pc = "done"
    /\ input = <<"{", "\"", "a", "\"", ":", "1", ",", "\"", "a", "\"", ":", "2", "}">>
    /\ Len(result.val.entries) = 2
    /\ lookup_key = Scalars(<<"a">>)
    /\ got = Some(Number(1, 0, 0))

\* What parse returns when the value val is complete and rest follows it.
ReturnsValue(val, rest) ==
    IF SkipWhile(rest) = <<>> THEN IsOk(val)
    ELSE IsErr(ExtraChars(SkipWhile(rest)))

\* C10: in an object, '}' at a key position closes the object only when no
\* entry has been parsed; after a ',' every character at the key position
\* that is not '"', '}' included, is UnexpectedChar of that character, as is
\* every such character but '}' right after '{'; after a value only ',' and
\* '}' are accepted and every other character is UnexpectedChar of it.
C10_ObjectPunctuation ==
    Parsed =>
        \A ms \in ObjShapes :
            HasMembers(ms) =>
                LET k == SkipWhile(ObjTail(ms))
                    key == SkipWhile(Tail(k))
                IN  IF k = <<>> THEN TRUE
                    ELSE IF ms = <<>>
                    THEN IF Head(k) = "}" THEN ReturnsValue(Object(<<>>), Tail(k))
                         ELSE IsErr(UnexpectedChar(Head(k)))
                    ELSE IF Head(k) = "}"
                    THEN ReturnsValue(Object(EntriesOf(ms)), Tail(k))
                    ELSE IF Head(k) = ","
                    THEN key # <<>> => IsErr(UnexpectedChar(Head(key)))
                    ELSE IsErr(UnexpectedChar(Head(k)))

\* {"a":1,} has been parsed and gave UnexpectedChar('}').
C10_Witness ==
    /\ Parsed
    /\ input = <<"{", "\"", "a", "\"", ":", "1", ",", "}">>
    /\ IsErr(UnexpectedChar("}"))

\* The characters that complete the keyword of a lead character, and the
\* value the keyword stands for.
KwTail(lead) ==
    CASE lead = "n" -> <<"u", "l", "l">>
      [] lead = "t" -> <<"r", "u", "e">>
      [] lead = "f" -> <<"a", "l", "s", "e">>
KwValue(lead) ==
    CASE lead = "n" -> Null
      [] lead = "t" -> Boolean(TRUE)
      [] lead = "f" -> Boolean(FALSE)

\* C7: after a lead character n, t or f the value is Null, Boolean(true) or
\* Boolean(false) exactly when the next characters are "ull", "rue" or
\* "alse"; in every other case, the input ending inside the keyword
\* included, the error is UnexpectedKeyword.
C7_KeywordExactOrUnexpectedKeyword ==
    (Parsed /\ input # <<>> /\ Head(input) \in KwLeads) =>
        LET lead == Head(input)
        IN  IF IsPrefix(KwTail(lead), Tail(input))
            THEN ReturnsValue(KwValue(lead), After(KwTail(lead), Tail(input)))
            ELSE IsErr(UnexpectedKeyword)

\* "tru" has been parsed and gave UnexpectedKeyword.
C7_Witness ==
    /\ Parsed
    /\ input = <<"t", "r", "u">>
    /\ IsErr(UnexpectedKeyword)

\* text ends with the sequence suffix.
IsSuffix(suffix, text) ==
    /\ Len(suffix) <= Len(text)
    /\ SubSeq(text, Len(text) - Len(suffix) + 1, Len(text)) = suffix

\* The text with a space put in after its first i characters.
SpacedAfter(text, i) ==
    SubSeq(text, 1, i) \o <<" ">> \o SubSeq(text, i + 1, Len(text))

\* The places of text where a digit is directly followed by ',', ']' or '}'.
TightPlaces(text) ==
    {i \in 1..(Len(text) - 1) : IsDigit(text[i]) /\ text[i + 1] \in {",", "]", "}"}}

\* The characters of s that are not whitespace, in order.
Significant(s) == SelectSeq(s, LAMBDA ch : ~IsWhitespace(ch))

\* Two results of parse are the same; the payloads of two ExtraChars, which
\* copy the text and are not parsed, are compared without their whitespace.
SameParse(a, b) ==
    \/ a = b
    \/ /\ a.st = "Err" /\ a.err.kind = "ExtraChars"
       /\ b.st = "Err" /\ b.err.kind = "ExtraChars"
       /\ Significant(a.err.chars) = Significant(b.err.chars)

\* C8: a production other than number returns no excess character; what a
\* production hands on, its excess character followed by what it left in the
\* iterator, is the end of the text it was given, and a number returns no
\* excess only at the end of the text; so a number directly followed by ',',
\* ']' or '}' parses the same as with whitespace between them.
C8_LookaheadHandoff ==
    Parsed =>
        LET r == ParseJsonImpl(input)
        IN  /\ r.st = "Ok" =>
                  /\ r.val.type # "Number" => r.excess = <<>>
                  /\ IsSuffix(r.excess \o r.rest, input)
                  /\ (r.val.type = "Number" /\ r.excess = <<>>) => r.rest = <<>>
            /\ \A i \in TightPlaces(input) :
                  SameParse(result, ParseJsonString(SpacedAfter(input, i)))

\* [1,1] has been parsed: both numbers ended on the character the array
\* needed next.
C8_Witness ==
    /\ Parsed
    /\ input = <<"[", "1", ",", "1", "]">>
    /\ IsOk(Array(<<Number(1, 0, 0), Number(1, 0, 0)>>))

RECURSIVE DecimalOf(_)
\* The decimal digits that write the natural number n, without leading
\* zeros ("0" for 0).
DecimalOf(n) ==
    IF n < 10 THEN <<DecDigits[n + 1]>>
    ELSE Append(DecimalOf(n \div 10), DecDigits[(n % 10) + 1])

RECURSIVE StripZeros(_)
\* The digits without their leading zeros ("0" when all are zeros).
StripZeros(digits) ==
    IF Len(digits) > 1 /\ Head(digits) = "0" THEN StripZeros(Tail(digits))
    ELSE digits

\* The decimal digits of the magnitude of the i32 e.
MagnitudeOf(e) ==
    IF e >= 0 THEN DecimalOf(e)
    ELSE LET tens == -(e \div 10) - (IF e % 10 = 0 THEN 0 ELSE 1)
             unit == DecDigits[((10 - (e % 10)) % 10) + 1]
         IN  IF tens = 0 THEN <<unit>> ELSE Append(DecimalOf(tens), unit)

\* The sign and the digits of the exponent of a text 1e[sign]digits.
ExpSignOf(text) == IF text[3] = "-" THEN -1 ELSE 1
ExpDigitsOf(text) ==
    IF text[3] \in {"+", "-"} THEN SubSeq(text, 4, Len(text))
    ELSE SubSeq(text, 3, Len(text))

\* C11: for exponent digits of any length the parse neither aborts nor
\* wraps: the exponent applied to the number is the decimal value of the
\* digits times the exponent sign.
C11_ExponentIsDecimalValue ==
    (Parsed /\ input \in ExpTexts) =>
        /\ result.st = "Ok"
        /\ result.val.type = "Number"
        /\ MagnitudeOf(result.val.exp) = StripZeros(ExpDigitsOf(input))
        /\ \/ result.val.exp = 0
           \/ (result.val.exp < 0) <=> (ExpSignOf(input) = -1)

====
